---- MODULE Spec2Model ----
(***************************************************************************)
(* Near-Earth objects and their close approaches: the record models        *)
(* (models.py), the database and its linker (database.py) and the filter   *)
(* construction (filters.py), as a state machine.                          *)
(*                                                                         *)
(* Objects live in the two collections the caller builds (neos,            *)
(* approaches); a reference to an object is Ref(i), with i its 1-based     *)
(* position there.                                                         *)
(* Strings are sequences of one-character strings, so that str.strip and   *)
(* str.lower are computed.  Floats are integers, or NaN.                    *)
(***************************************************************************)
EXTENDS Integers, Sequences, FiniteSets, TLC

VARIABLES
  neos,         \* the NearEarthObject collection handed to NEODatabase
  approaches,   \* the CloseApproach collection handed to NEODatabase
  _neos,        \* NEODatabase._neos: references into neos
  _approaches,  \* NEODatabase._approaches: references into approaches
  pc,           \* "load": objects are being built; "db": __init__ has run
  call,         \* the latest call: [op, arg, ret, raised]
  streams,      \* the generator objects returned by NEODatabase.query
  lim           \* the latest call of limit and what its caller has taken from the result

vars == <<neos, approaches, _neos, _approaches, pc, call, streams, lim>>

\* Bounds of the model.
MaxNeos == 2
MaxApproaches == 2
MaxStreams == 2
MaxStops == 2
MaxItems == 3

\* Python values.  None, a missing attribute and references are tuples, like
\* the strings they are compared with.
None == <<"None">>      \* the None singleton
NoAttr == <<"NoAttr">>  \* an attribute never assigned: reading it raises AttributeError

\* obj.name can be read: the attribute was assigned.  neo is the one
\* attribute the constructors may leave unassigned.
HasAttr(obj, name) == name \in DOMAIN obj /\ (name = "neo" => obj.neo # NoAttr)

\* An int, where None can stand in its place.
int(k) == <<"int", k>>

\* The reference to the object at position i of its collection, and back.
Ref(i) == <<"ref", i>>

At(ref) == ref[2]

\* A float is a number or the NaN.
Float(n) == [nan |-> FALSE, v |-> n]

NaN == [nan |-> TRUE, v |-> 0]

\* call.raised when the call returned.
Nothing == "nothing"

Range(seq) == {seq[i] : i \in 1..Len(seq)}

-----------------------------------------------------------------------------
(* str methods, on sequences of characters *)

Whitespace == {" "}

lowerChar(c) ==
  CASE c = "A" -> "a" [] c = "B" -> "b" [] c = "X" -> "x" [] c = "Y" -> "y"
    [] c = "N" -> "n" [] OTHER -> c

upperChar(c) ==
  CASE c = "a" -> "A" [] c = "b" -> "B" [] c = "x" -> "X" [] c = "y" -> "Y"
    [] c = "n" -> "N" [] OTHER -> c

lower(s) == [i \in 1..Len(s) |-> lowerChar(s[i])]

upper(s) == [i \in 1..Len(s) |-> upperChar(s[i])]

RECURSIVE lstrip(_)
lstrip(s) == IF s # <<>> /\ Head(s) \in Whitespace THEN lstrip(Tail(s)) ELSE s

RECURSIVE rstrip(_)
rstrip(s) ==
  IF s # <<>> /\ s[Len(s)] \in Whitespace THEN rstrip(SubSeq(s, 1, Len(s) - 1)) ELSE s

strip(s) == rstrip(lstrip(s))

-----------------------------------------------------------------------------
(* models.py *)

\* float(text) accepts a numeral or "nan" in any case, with surrounding
\* whitespace; the numerals of the model are the one-digit ones.
Digits == {"0", "1", "2"}

IsNumeral(text) ==
  \/ Len(strip(text)) = 1 /\ strip(text)[1] \in Digits
  \/ lower(strip(text)) = <<"n", "a", "n">>

\* What float(text) raises: TypeError for None, ValueError for a text that
\* is no numeral (the empty text included).
FloatError(text) ==
  IF text = None THEN "TypeError"
  ELSE IF IsNumeral(text) THEN Nothing
  ELSE "ValueError"

float(text) ==
  LET t == strip(text)
  IN IF Len(t) # 1 THEN NaN
     ELSE CASE t[1] = "0" -> Float(0) [] t[1] = "1" -> Float(1) [] t[1] = "2" -> Float(2)

\* A constructor that stores 0.0 for the empty diameter text.
NearEarthObject_zero(designation, name, diameter, hazardous) ==
  LET error == IF diameter = <<>> THEN Nothing ELSE FloatError(diameter)
  IN IF error # Nothing
     THEN [raised |-> error, obj |-> None]
     ELSE [raised |-> Nothing,
           obj |-> [designation |-> designation,
                    name |-> IF name = <<>> THEN None ELSE name,
                    diameter |-> IF diameter = <<>> THEN Float(0) ELSE float(diameter),
                    hazardous |-> hazardous,
                    approaches |-> <<>>]]

\* A constructor that stores the name as it is given.
NearEarthObject_named(designation, name, diameter, hazardous) ==
  LET error == IF diameter = <<>> THEN Nothing ELSE FloatError(diameter)
  IN IF error # Nothing
     THEN [raised |-> error, obj |-> None]
     ELSE [raised |-> Nothing,
           obj |-> [designation |-> designation,
                    name |-> name,
                    diameter |-> IF diameter = <<>> THEN NaN ELSE float(diameter),
                    hazardous |-> hazardous,
                    approaches |-> <<>>]]

\* NearEarthObject.__init__(designation, name, diameter, hazardous): line 49
\* stores None for the empty name, line 50 NaN for the empty diameter and
\* float(diameter) for any other, whose exception leaves the constructor.
NearEarthObject(designation, name, diameter, hazardous) ==
  LET error == IF diameter = <<>> THEN Nothing ELSE FloatError(diameter)
  IN IF error # Nothing
     THEN [raised |-> error, obj |-> None]
     ELSE [raised |-> Nothing,
           obj |-> [designation |-> designation,
                    name |-> IF name = <<>> THEN None ELSE name,
                    diameter |-> IF diameter = <<>> THEN NaN ELSE float(diameter),
                    hazardous |-> hazardous,
                    approaches |-> <<>>]]

\* CloseApproach.__init__(time, distance, velocity, neo, designation): lines
\* 98-99 convert distance, then velocity, with float, whose exception leaves
\* the constructor.  With neo None only a local name is bound: the object
\* gets no neo attribute.
CloseApproach(time, distance, velocity, neo, designation) ==
  LET error == IF FloatError(distance) # Nothing THEN FloatError(distance)
               ELSE FloatError(velocity)
  IN IF error # Nothing
     THEN [raised |-> error, obj |-> None]
     ELSE [raised |-> Nothing,
           obj |-> [_designation |-> designation,
                    time |-> time,
                    distance |-> float(distance),
                    velocity |-> float(velocity),
                    neo |-> IF neo = None THEN NoAttr ELSE neo]]

-----------------------------------------------------------------------------
(* The source rows the objects are built from *)

\* The rows of the NEO source, in file order.
NeoCatalog ==
  << [designation |-> <<"a">>,      name |-> <<"x">>,      diameter |-> <<"1">>, hazardous |-> FALSE],
     [designation |-> <<"A", " ">>, name |-> <<"X">>,      diameter |-> <<>>,  hazardous |-> TRUE],
     [designation |-> <<"b">>,      name |-> <<>>,         diameter |-> <<>>,  hazardous |-> FALSE],
     [designation |-> <<" ", "B">>, name |-> <<" ", "y">>, diameter |-> <<"2">>, hazardous |-> TRUE] >>

NeoRows == Range(NeoCatalog)

\* The rows of the close-approach source, in file order.
ApproachCatalog ==
  << [designation |-> <<"a">>,      time |-> [date |-> 1, minute |-> 0], distance |-> <<"1">>, velocity |-> <<"2">>],
     [designation |-> <<"b">>,      time |-> [date |-> 2, minute |-> 0], distance |-> <<"2">>, velocity |-> <<"1">>],
     [designation |-> <<"A", " ">>, time |-> [date |-> 1, minute |-> 5], distance |-> <<"0">>, velocity |-> <<"1">>] >>

ApproachRows == Range(ApproachCatalog)

\* The arguments the lookups are called with.
DesignationArgs ==
  { None, <<"a">>, <<" ", "a", " ">>, <<"A">>, <<"b">>, <<"B", " ">>, <<"y">>, <<>> }

NameArgs ==
  { None, <<>>, <<"x">>, <<"X", " ">>, <<" ", "Y">>, <<"b">> }

-----------------------------------------------------------------------------
(* database.py *)

\* The names bound in the database module (imports at line 14, class at 17).
DatabaseGlobals == {"NearEarthObject", "CloseApproach", "NEODatabase"}

\* A linker that returns without a word about approaches it could not link.
populate_relationships_single_pass_silent(ns, cas) ==
  [raised |-> Nothing, neos |-> ns, approaches |-> cas]

\* NEODatabase.populate_relationships_single_pass(neos, close_approaches).
\* The comprehension of lines 118-121 evaluates isinstance(obj, A) for every
\* element of neos + close_approaches; A is bound nowhere, so the first
\* element raises NameError before any link is made.  With no element, the
\* comprehension and the loop of line 124 have nothing to do.
populate_relationships_single_pass(ns, cas) ==
  IF Len(ns \o cas) > 0 /\ "A" \notin DatabaseGlobals
  THEN [raised |-> "NameError", neos |-> ns, approaches |-> cas]
  ELSE [raised |-> Nothing, neos |-> ns, approaches |-> cas]

\* A lookup that normalises the argument but not the stored designation.
get_neo_by_designation_raw(designation) ==
  LET hits == {i \in 1..Len(_neos) :
                 lower(strip(designation)) = neos[At(_neos[i])].designation}
  IN IF designation = None /\ Len(_neos) > 0
     THEN [raised |-> "AttributeError", ret |-> None]
     ELSE IF hits = {}
     THEN [raised |-> Nothing, ret |-> None]
     ELSE [raised |-> Nothing, ret |-> _neos[CHOOSE i \in hits : \A j \in hits : i <= j]]

\* NEODatabase.get_neo_by_designation(designation): the first NEO, in the
\* order of self._neos, whose stripped, lower-cased designation equals the
\* stripped, lower-cased argument.  designation.strip() is evaluated at the
\* first NEO, which raises AttributeError for None.
get_neo_by_designation(designation) ==
  LET hits == {i \in 1..Len(_neos) :
                 lower(strip(designation)) = lower(strip(neos[At(_neos[i])].designation))}
  IN IF designation = None /\ Len(_neos) > 0
     THEN [raised |-> "AttributeError", ret |-> None]
     ELSE IF hits = {}
     THEN [raised |-> Nothing, ret |-> None]
     ELSE [raised |-> Nothing, ret |-> _neos[CHOOSE i \in hits : \A j \in hits : i <= j]]

\* A lookup that keeps scanning and returns the last NEO of that name.
get_neo_by_name_last(name) ==
  LET named == {i \in 1..Len(_neos) : neos[At(_neos[i])].name # None}
      hits == {i \in named : name # None /\ lower(strip(name)) = lower(strip(neos[At(_neos[i])].name))}
  IN IF named # {} /\ name = None
     THEN [raised |-> "AttributeError", ret |-> None]
     ELSE IF hits = {}
     THEN [raised |-> Nothing, ret |-> None]
     ELSE [raised |-> Nothing, ret |-> _neos[CHOOSE i \in hits : \A j \in hits : i >= j]]

\* NEODatabase.get_neo_by_name(name): NEOs without a name are skipped; at
\* the first named NEO name.strip() is evaluated, which raises AttributeError
\* for None.
get_neo_by_name(name) ==
  LET named == {i \in 1..Len(_neos) : neos[At(_neos[i])].name # None}
      hits == {i \in named : name # None /\ lower(strip(name)) = lower(strip(neos[At(_neos[i])].name))}
  IN IF named # {} /\ name = None
     THEN [raised |-> "AttributeError", ret |-> None]
     ELSE IF hits = {}
     THEN [raised |-> Nothing, ret |-> None]
     ELSE [raised |-> Nothing, ret |-> _neos[CHOOSE i \in hits : \A j \in hits : i <= j]]

\* NEODatabase.query(filters): calling the generator function runs none of
\* its body; the generator starts before the first element of
\* self._approaches.  i counts the elements its loop has taken.
query(filters) == [filters |-> filters, i |-> 0, done |-> FALSE]

\* A loop that stops one element short of the end of the collection.
resume_short(gen) ==
  IF ~gen.done /\ gen.i < Len(_approaches) - 1
  THEN [gen |-> [gen EXCEPT !.i = gen.i + 1], yielded |-> <<_approaches[gen.i + 1]>>]
  ELSE [gen |-> [gen EXCEPT !.done = TRUE], yielded |-> <<>>]

\* A stream that starts over when it is iterated after its end, as a list does.
resume_rewinding(gen) ==
  IF gen.done /\ Len(_approaches) > 0
  THEN [gen |-> [gen EXCEPT !.i = 1, !.done = FALSE], yielded |-> <<_approaches[1]>>]
  ELSE IF gen.i < Len(_approaches)
  THEN [gen |-> [gen EXCEPT !.i = gen.i + 1], yielded |-> <<_approaches[gen.i + 1]>>]
  ELSE [gen |-> [gen EXCEPT !.done = TRUE], yielded |-> <<>>]

\* next() of a generator of query: the loop of lines 112-114 takes the next
\* element of self._approaches and yields it, whatever the filters are; past
\* the last element the generator finishes, and a finished generator stays
\* finished.  yielded is <<>> when StopIteration is raised.
resume(gen) ==
  IF ~gen.done /\ gen.i < Len(_approaches)
  THEN [gen |-> [gen EXCEPT !.i = gen.i + 1], yielded |-> <<_approaches[gen.i + 1]>>]
  ELSE [gen |-> [gen EXCEPT !.done = TRUE], yielded |-> <<>>]

-----------------------------------------------------------------------------
(* filters.py *)

\* The criteria of a query are the keyword arguments given to create_filters:
\* a set of <<name, value>> pairs; a name not in it has the default None.
Supplied(criteria, name) == \E kv \in criteria : kv[1] = name

Value(criteria, name) == (CHOOSE kv \in criteria : kv[1] = name)[2]

\* create_filters(date, ..., hazardous): returns the empty tuple (line 112).
create_filters(criteria) == <<>>

\* The iterables limit is given: a materialized collection, or an iterator
\* that has handed out the first i of its items.
Tuple(items) == [kind |-> "tuple", items |-> items, i |-> 0]

Iterator(items) == [kind |-> "iterator", items |-> items, i |-> 0]

\* iter(x): a new iterator over a collection, the iterator itself for an iterator.
iter(x) == IF x.kind = "tuple" THEN Iterator(x.items) ELSE x

\* next(it): the next item, or StopIteration (yielded is <<>>).
next(it) ==
  IF it.i < Len(it.items)
  THEN [it |-> [it EXCEPT !.i = it.i + 1], yielded |-> <<it.items[it.i + 1]>>]
  ELSE [it |-> it, yielded |-> <<>>]

\* A limit that takes n = 0 literally and yields nothing.
limit_zero(iterator, n) ==
  IF n = int(0) THEN [iterator EXCEPT !.items = <<>>, !.i = 0] ELSE iterator

\* limit(iterator, n): returns its argument (line 125), whatever n is.
limit(iterator, n) == iterator

\* The inputs limit is called with: collections and iterators of up to
\* MaxItems items, and limits up to one more than that.
Items == {[k \in 1..len |-> k] : len \in 0..MaxItems}

Iterables == {Tuple(items) : items \in Items} \cup {Iterator(items) : items \in Items}

LimitArgs == {None} \cup {int(k) : k \in 0..(MaxItems + 1)}

\* The texts the constructors of models.py are given for a name and for a
\* number; None is an absent one.
NameTexts == {None, <<>>, <<"x">>, <<" ">>}

NumericTexts == {None, <<>>, <<"1">>, <<" ", "2">>, <<"x">>, <<"N", "a", "N">>}

\* The criteria of the hazardous, the bounded and the dated queries.
FilterCriteriaArgs ==
  { {<<"hazardous", FALSE>>},
    {<<"hazardous", TRUE>>},
    {<<"distance_min", Float(2)>>, <<"distance_max", Float(1)>>},
    {<<"velocity_min", Float(2)>>, <<"velocity_max", Float(1)>>},
    {<<"diameter_min", Float(2)>>, <<"diameter_max", Float(1)>>},
    {<<"diameter_min", Float(0)>>},
    {<<"diameter_max", Float(2)>>},
    {<<"start_date", 2>>, <<"end_date", 1>>},
    {<<"date", 1>>, <<"start_date", 1>>, <<"end_date", 2>>},
    {<<"date", 3>>, <<"start_date", 1>>, <<"end_date", 2>>} }

\* The criteria the queries are made with.
CriteriaArgs ==
  { {},
    {<<"distance_max", Float(1)>>},
    {<<"date", 1>>, <<"velocity_min", Float(2)>>} }

-----------------------------------------------------------------------------
(* The state machine *)

NoCall == [op |-> "none", arg |-> None, ret |-> None, raised |-> Nothing]

\* No call of limit yet.
NoLimit == [called |-> FALSE, supplied |-> FALSE, n |-> None, arg |-> Tuple(<<>>),
            it |-> Iterator(<<>>), out |-> <<>>, ended |-> FALSE]

Init ==
  /\ neos = <<>>
  /\ approaches = <<>>
  /\ _neos = <<>>
  /\ _approaches = <<>>
  /\ pc = "load"
  /\ call = NoCall
  /\ streams = <<>>
  /\ lim = NoLimit

\* One row of the NEO source becomes a NearEarthObject (primary designations
\* are unique in the data set).
LoadNeo(row) ==
  /\ pc = "load"
  /\ Len(neos) < MaxNeos
  /\ \A i \in 1..Len(neos) : neos[i].designation # row.designation
  /\ LET r == NearEarthObject(row.designation, row.name, row.diameter, row.hazardous)
     IN /\ r.raised = Nothing
        /\ neos' = Append(neos, r.obj)
  /\ UNCHANGED <<approaches, _neos, _approaches, pc, call, streams, lim>>

\* One row of the close-approach source becomes a CloseApproach.
LoadApproach(row) ==
  /\ pc = "load"
  /\ Len(approaches) < MaxApproaches
  /\ LET r == CloseApproach(row.time, row.distance, row.velocity, None, row.designation)
     IN /\ r.raised = Nothing
        /\ approaches' = Append(approaches, r.obj)
  /\ UNCHANGED <<neos, _neos, _approaches, pc, call, streams, lim>>

\* NEODatabase.__init__(neos, approaches): binds the two fields (lines 44-45),
\* then links (line 56).  When the linker raises, the caller gets no database.
NEODatabase ==
  /\ pc = "load"
  /\ LET r == populate_relationships_single_pass(neos, approaches)
     IN /\ _neos' = [i \in 1..Len(neos) |-> Ref(i)]
        /\ _approaches' = [i \in 1..Len(approaches) |-> Ref(i)]
        /\ neos' = r.neos
        /\ approaches' = r.approaches
        /\ call' = [op |-> "NEODatabase", arg |-> None, ret |-> None, raised |-> r.raised]
        /\ pc' = IF r.raised = Nothing THEN "db" ELSE "failed"
  /\ UNCHANGED <<streams, lim>>

\* The linking pass run once more over the collections the constructor was
\* given (line 56 again).
Relink ==
  /\ pc \in {"db", "failed"}
  /\ LET r == populate_relationships_single_pass(neos, approaches)
     IN /\ neos' = r.neos
        /\ approaches' = r.approaches
        /\ call' = [op |-> "populate_relationships_single_pass", arg |-> None, ret |-> None,
                    raised |-> r.raised]
  /\ UNCHANGED <<_neos, _approaches, pc, streams, lim>>

GetNeoByDesignation(d) ==
  /\ pc = "db"
  /\ LET r == get_neo_by_designation(d)
     IN call' = [op |-> "get_neo_by_designation", arg |-> d, ret |-> r.ret, raised |-> r.raised]
  /\ UNCHANGED <<neos, approaches, _neos, _approaches, pc, streams, lim>>

GetNeoByName(n) ==
  /\ pc = "db"
  /\ LET r == get_neo_by_name(n)
     IN call' = [op |-> "get_neo_by_name", arg |-> n, ret |-> r.ret, raised |-> r.raised]
  /\ UNCHANGED <<neos, approaches, _neos, _approaches, pc, streams, lim>>

\* database.query(create_filters(**criteria)), as main.query does: the caller
\* holds the new generator and has received nothing from it yet.
Query(criteria) ==
  /\ pc = "db"
  /\ Len(streams) < MaxStreams
  /\ streams' = Append(streams, [criteria |-> criteria,
                                 gen |-> query(create_filters(criteria)),
                                 out |-> <<>>,
                                 stops |-> 0])
  /\ call' = [op |-> "query", arg |-> None, ret |-> None, raised |-> Nothing]
  /\ UNCHANGED <<neos, approaches, _neos, _approaches, pc, lim>>

\* database.query(): filters has its default, the empty tuple (line 98).
QueryDefault ==
  /\ pc = "db"
  /\ Len(streams) < MaxStreams
  /\ streams' = Append(streams, [criteria |-> {}, gen |-> query(<<>>), out |-> <<>>, stops |-> 0])
  /\ call' = [op |-> "query", arg |-> None, ret |-> None, raised |-> Nothing]
  /\ UNCHANGED <<neos, approaches, _neos, _approaches, pc, lim>>

\* A stream that takes its approaches out of the collection of the database.
NextItem_consuming(k) ==
  /\ pc = "db"
  /\ k \in 1..Len(streams)
  /\ streams[k].stops < MaxStops
  /\ LET r == resume(streams[k].gen)
     IN /\ streams' = [streams EXCEPT ![k].gen = r.gen,
                                      ![k].out = @ \o r.yielded,
                                      ![k].stops = IF r.yielded = <<>> THEN @ + 1 ELSE @]
        /\ _approaches' = IF r.yielded = <<>> THEN _approaches ELSE Tail(_approaches)
        /\ call' = [op |-> "next", arg |-> None, ret |-> None,
                    raised |-> IF r.yielded = <<>> THEN "StopIteration" ELSE Nothing]
  /\ UNCHANGED <<neos, approaches, _neos, pc, lim>>

\* next(stream): the caller pulls one more element from generator k; out is
\* what the caller has received from it, stops how often it was told that
\* the stream has ended.
NextItem(k) ==
  /\ pc = "db"
  /\ k \in 1..Len(streams)
  /\ streams[k].stops < MaxStops
  /\ LET r == resume(streams[k].gen)
     IN /\ streams' = [streams EXCEPT ![k].gen = r.gen,
                                      ![k].out = @ \o r.yielded,
                                      ![k].stops = IF r.yielded = <<>> THEN @ + 1 ELSE @]
        /\ call' = [op |-> "next", arg |-> None, ret |-> None,
                    raised |-> IF r.yielded = <<>> THEN "StopIteration" ELSE Nothing]
  /\ UNCHANGED <<neos, approaches, _neos, _approaches, pc, lim>>

\* tuple(limit(x, n)), as the callers of limit do: the caller iterates over
\* what limit returned and has taken nothing from it yet.
Limit(x, n) ==
  /\ lim' = [called |-> TRUE, supplied |-> TRUE, n |-> n, arg |-> x,
             it |-> iter(limit(x, n)), out |-> <<>>, ended |-> FALSE]
  /\ call' = [op |-> "limit", arg |-> None, ret |-> None, raised |-> Nothing]
  /\ UNCHANGED <<neos, approaches, _neos, _approaches, pc, streams>>

\* limit(x): n has its default, None (line 115).
LimitDefault(x) ==
  /\ lim' = [called |-> TRUE, supplied |-> FALSE, n |-> None, arg |-> x,
             it |-> iter(limit(x, None)), out |-> <<>>, ended |-> FALSE]
  /\ call' = [op |-> "limit", arg |-> None, ret |-> None, raised |-> Nothing]
  /\ UNCHANGED <<neos, approaches, _neos, _approaches, pc, streams>>

\* The caller takes the next item of the limited result, until it ends.
Take ==
  /\ lim.called
  /\ ~lim.ended
  /\ LET r == next(lim.it)
     IN /\ lim' = [lim EXCEPT !.it = r.it,
                              !.out = @ \o r.yielded,
                              !.ended = (r.yielded = <<>>)]
        /\ call' = [op |-> "next", arg |-> None, ret |-> None,
                    raised |-> IF r.yielded = <<>> THEN "StopIteration" ELSE Nothing]
  /\ UNCHANGED <<neos, approaches, _neos, _approaches, pc, streams>>

\* NearEarthObject(designation, name, diameter, hazardous), on raw texts.
NewNearEarthObject(designation, name, diameter, hazardous) ==
  /\ LET r == NearEarthObject(designation, name, diameter, hazardous)
     IN call' = [op |-> "NearEarthObject",
                 arg |-> [designation |-> designation, name |-> name,
                          diameter |-> diameter, hazardous |-> hazardous],
                 ret |-> r.obj, raised |-> r.raised]
  /\ UNCHANGED <<neos, approaches, _neos, _approaches, pc, streams, lim>>

\* CloseApproach(time, distance, velocity, designation=designation), on raw texts.
NewCloseApproach(time, distance, velocity, designation) ==
  /\ LET r == CloseApproach(time, distance, velocity, None, designation)
     IN call' = [op |-> "CloseApproach",
                 arg |-> [designation |-> designation, time |-> time,
                          distance |-> distance, velocity |-> velocity],
                 ret |-> r.obj, raised |-> r.raised]
  /\ UNCHANGED <<neos, approaches, _neos, _approaches, pc, streams, lim>>

\* The program: the collections are loaded, the database is constructed, and
\* the database the constructor returned is looked up and queried.
Next ==
  \/ \E row \in NeoRows : LoadNeo(row)
  \/ \E row \in ApproachRows : LoadApproach(row)
  \/ NEODatabase
  \/ Relink
  \/ \E d \in DesignationArgs : GetNeoByDesignation(d)
  \/ \E n \in NameArgs : GetNeoByName(n)
  \/ \E c \in CriteriaArgs : Query(c)
  \/ QueryDefault
  \/ \E k \in 1..MaxStreams : NextItem(k)

Spec == Init /\ [][Next]_vars

\* The collections that can be loaded.
RECURSIVE Collections(_, _)
Collections(objects, n) ==
  IF n = 0 THEN {<<>>}
  ELSE LET shorter == Collections(objects, n - 1)
       IN shorter \cup {Append(c, o) : c \in {c \in shorter : Len(c) = n - 1}, o \in objects}

NeoCollections ==
  {c \in Collections({NearEarthObject(row.designation, row.name, row.diameter, row.hazardous).obj :
                        row \in NeoRows}, MaxNeos) :
     \A i, j \in 1..Len(c) : i # j => c[i].designation # c[j].designation}

ApproachCollections ==
  Collections({CloseApproach(row.time, row.distance, row.velocity, None, row.designation).obj :
                 row \in ApproachRows}, MaxApproaches)

\* A database instance whose fields hold loaded collections (lines 44-45),
\* for the methods that read them.
InitInstance ==
  /\ neos \in NeoCollections
  /\ approaches \in ApproachCollections
  /\ _neos = [i \in 1..Len(neos) |-> Ref(i)]
  /\ _approaches = [i \in 1..Len(approaches) |-> Ref(i)]
  /\ pc = "db"
  /\ call = NoCall
  /\ streams = <<>>
  /\ lim = NoLimit

\* The lookups of an instance, applied to every instance.
NextLookup ==
  \/ \E d \in DesignationArgs : GetNeoByDesignation(d)
  \/ \E n \in NameArgs : GetNeoByName(n)

SpecLookup == InitInstance /\ [][NextLookup]_vars

\* query reads self._approaches alone: its instances hold every approach
\* collection, next to the first NEOs of the source.
InitQueryInstance ==
  /\ InitInstance
  /\ \A i \in 1..Len(neos) : neos[i].designation = NeoCatalog[i].designation
  /\ Len(neos) = IF MaxNeos < Len(NeoCatalog) THEN MaxNeos ELSE Len(NeoCatalog)

\* The queries of an instance, applied to every such instance.
NextQuery ==
  \/ \E c \in CriteriaArgs : Query(c)
  \/ QueryDefault
  \/ \E k \in 1..MaxStreams : NextItem(k)

SpecQuery == InitQueryInstance /\ [][NextQuery]_vars

\* The NEO of the source that has the designation of the row.
Owner(row) == CHOOSE i \in 1..Len(NeoCatalog) : NeoCatalog[i].designation = row.designation

\* A database instance over the whole source whose approaches were built
\* with their NEO (the neo argument of CloseApproach, line 104): the state
\* the filters of a query read.
InitLinkedInstance ==
  /\ neos = [i \in 1..Len(NeoCatalog) |->
              NearEarthObject(NeoCatalog[i].designation, NeoCatalog[i].name,
                              NeoCatalog[i].diameter, NeoCatalog[i].hazardous).obj]
  /\ approaches = [j \in 1..Len(ApproachCatalog) |->
                    CloseApproach(ApproachCatalog[j].time, ApproachCatalog[j].distance,
                                  ApproachCatalog[j].velocity, Ref(Owner(ApproachCatalog[j])),
                                  ApproachCatalog[j].designation).obj]
  /\ _neos = [i \in 1..Len(neos) |-> Ref(i)]
  /\ _approaches = [i \in 1..Len(approaches) |-> Ref(i)]
  /\ pc = "db"
  /\ call = NoCall
  /\ streams = <<>>
  /\ lim = NoLimit

\* The filtered queries of that instance.
NextFilters ==
  \/ \E c \in FilterCriteriaArgs : Query(c)
  \/ QueryDefault
  \/ \E k \in 1..MaxStreams : NextItem(k)

SpecFilters == InitLinkedInstance /\ [][NextFilters]_vars

\* The lookups and the queries of the linked instance, in any order.
NextReadOnly ==
  \/ \E d \in DesignationArgs : GetNeoByDesignation(d)
  \/ \E n \in NameArgs : GetNeoByName(n)
  \/ \E c \in CriteriaArgs : Query(c)
  \/ QueryDefault
  \/ \E k \in 1..MaxStreams : NextItem(k)

SpecReadOnly == InitLinkedInstance /\ [][NextReadOnly]_vars

\* The calls of limit and the consumption of their results.
NextLimit ==
  \/ \E x \in Iterables, n \in LimitArgs : Limit(x, n)
  \/ \E x \in Iterables : LimitDefault(x)
  \/ Take

SpecLimit == Init /\ [][NextLimit]_vars

\* The constructors of models.py, applied to every combination of raw texts.
NextModels ==
  \/ \E row \in NeoRows, name \in NameTexts, diameter \in NumericTexts :
       NewNearEarthObject(row.designation, name, diameter, row.hazardous)
  \/ \E row \in ApproachRows, distance \in NumericTexts, velocity \in NumericTexts :
       NewCloseApproach(row.time, distance, velocity, row.designation)

SpecModels == Init /\ [][NextModels]_vars

-----------------------------------------------------------------------------
(* Properties of construction and linking *)

\* How often approach j occurs in the approaches collection of NEO i.
Occurrences(i, j) == Cardinality({k \in 1..Len(neos[i].approaches) : neos[i].approaches[k] = Ref(j)})

RECURSIVE Sum(_, _)
Sum(f, S) == IF S = {} THEN 0 ELSE LET x == CHOOSE x \in S : TRUE IN f[x] + Sum(f, S \ {x})

\* The constructor call has just ended.
Constructed == call.op = "NEODatabase"

\* Every approach's designation key is the designation of exactly one NEO.
ConsistentKeys ==
  \A j \in 1..Len(approaches) :
    Cardinality({i \in 1..Len(neos) : neos[i].designation = approaches[j]._designation}) = 1

\* C1 (join completeness): after the construction of a database from
\* collections with consistent designation keys, every approach occurs exactly
\* once over all the NEOs' approaches collections, and every approach's neo
\* is a NEO (neither missing nor None).
JoinCompleteness ==
  (Constructed /\ ConsistentKeys) =>
    \A j \in 1..Len(approaches) :
      /\ Sum([i \in 1..Len(neos) |-> Occurrences(i, j)], 1..Len(neos)) = 1
      /\ \E i \in 1..Len(neos) : approaches[j].neo = Ref(i)

\* C2 (join exclusivity): the construction of a database from several NEOs
\* and their approaches, with consistent designation keys, completes, and
\* then no approach is in the approaches collections of two different NEOs.
JoinExclusivity ==
  (Constructed /\ ConsistentKeys /\ Len(neos) >= 2 /\ Len(approaches) >= 1) =>
    /\ call.raised = Nothing
    /\ \A j \in 1..Len(approaches) :
         Cardinality({i \in 1..Len(neos) : Ref(j) \in Range(neos[i].approaches)}) <= 1

\* C3 (link consistency): after construction, approach j is in the approaches
\* of NEO i exactly when j's neo is i, that NEO carries j's designation key,
\* and every approach is linked to exactly one NEO.
LinkConsistency ==
  (Constructed /\ ConsistentKeys) =>
    \A j \in 1..Len(approaches) :
      /\ \A i \in 1..Len(neos) :
           /\ (Ref(j) \in Range(neos[i].approaches)) <=> (approaches[j].neo = Ref(i))
           /\ (approaches[j].neo = Ref(i)) => (neos[i].designation = approaches[j]._designation)
      /\ Cardinality({i \in 1..Len(neos) : approaches[j].neo = Ref(i)}) = 1

\* C4 (order preservation): the construction of a database in which a NEO
\* has several approaches, with consistent designation keys, completes, and
\* then each NEO's approaches collection lists its approaches in the order
\* of the input collection.
LinkOrderPreserved ==
  (/\ Constructed
   /\ ConsistentKeys
   /\ \E j, k \in 1..Len(approaches) :
        j # k /\ approaches[j]._designation = approaches[k]._designation) =>
    /\ call.raised = Nothing
    /\ \A i \in 1..Len(neos) :
         \A k, l \in 1..Len(neos[i].approaches) :
           k < l => At(neos[i].approaches[k]) < At(neos[i].approaches[l])

-----------------------------------------------------------------------------
(* Properties of the lookups *)

\* Trimming whitespace and folding case.
Normal(s) == lower(strip(s))

Padded(s) == <<" ">> \o s \o <<" ">>

DesignationHits(d) == {i \in 1..Len(neos) : Normal(neos[i].designation) = Normal(d)}

NameHits(n) == {i \in 1..Len(neos) : neos[i].name # None /\ Normal(neos[i].name) = Normal(n)}

NameLookupMissing ==
  (/\ call.op = "get_neo_by_name"
   /\ (call.arg = None \/ call.arg = <<>> \/ NameHits(call.arg) = {})) =>
    (call.raised = Nothing /\ call.ret = None)

-----------------------------------------------------------------------------
(* Properties of query *)

\* operator.le and operator.ge on floats: no comparison with NaN holds.
le(a, b) == ~a.nan /\ ~b.nan /\ a.v <= b.v

ge(a, b) == ~a.nan /\ ~b.nan /\ a.v >= b.v

IsLinked(a) == a.neo # NoAttr /\ a.neo # None

\* Approach a meets every criterion that was supplied.
Satisfies(criteria, a) ==
  /\ Supplied(criteria, "date") => a.time.date = Value(criteria, "date")
  /\ Supplied(criteria, "start_date") => a.time.date >= Value(criteria, "start_date")
  /\ Supplied(criteria, "end_date") => a.time.date <= Value(criteria, "end_date")
  /\ Supplied(criteria, "distance_min") => ge(a.distance, Value(criteria, "distance_min"))
  /\ Supplied(criteria, "distance_max") => le(a.distance, Value(criteria, "distance_max"))
  /\ Supplied(criteria, "velocity_min") => ge(a.velocity, Value(criteria, "velocity_min"))
  /\ Supplied(criteria, "velocity_max") => le(a.velocity, Value(criteria, "velocity_max"))
  /\ Supplied(criteria, "diameter_min") =>
       (IsLinked(a) /\ ge(neos[At(a.neo)].diameter, Value(criteria, "diameter_min")))
  /\ Supplied(criteria, "diameter_max") =>
       (IsLinked(a) /\ le(neos[At(a.neo)].diameter, Value(criteria, "diameter_max")))
  /\ Supplied(criteria, "hazardous") =>
       (IsLinked(a) /\ neos[At(a.neo)].hazardous = Value(criteria, "hazardous"))

\* The approaches of the database that meet the criteria, in storage order.
Matching(criteria) ==
  LET Test(ref) == Satisfies(criteria, approaches[At(ref)])
  IN SelectSeq(_approaches, Test)

\* The approach collection passed to the constructor, as references.
AllApproaches == [i \in 1..Len(approaches) |-> Ref(i)]

\* C8 (filter conjunction): a stream of query(create_filters(criteria)) that
\* has ended has yielded exactly the approaches that meet every supplied
\* criterion.
FilterConjunction ==
  \A k \in 1..Len(streams) :
    streams[k].gen.done => streams[k].out = Matching(streams[k].criteria)

\* C9: a stream of query with the empty or the default filter collection
\* yields the approaches in the order of the collection passed to the
\* constructor, and by its end it has yielded each of them exactly once.
QueryAllInOrder ==
  \A k \in 1..Len(streams) :
    streams[k].gen.filters = <<>> =>
      /\ Len(streams[k].out) <= Len(approaches)
      /\ streams[k].out = SubSeq(AllApproaches, 1, Len(streams[k].out))
      /\ streams[k].stops > 0 => streams[k].out = AllApproaches

\* A stream over at least two approaches has ended.
QueryAllInOrderWitness ==
  \E k \in 1..Len(streams) :
    /\ streams[k].gen.filters = <<>>
    /\ streams[k].stops > 0
    /\ Len(streams[k].out) >= 2

\* A stream begins at the first approach its filter collection accepts; with
\* the empty collection, the only one create_filters builds, that is the
\* first approach of the database.
StartsAtFirst ==
  \A k \in 1..Len(streams) :
    (streams[k].gen.filters = <<>> /\ Len(streams[k].out) >= 1) =>
      streams[k].out[1] = _approaches[1]

\* A call of query leaves the streams returned earlier as they are and
\* returns one from which nothing has been taken.
QueryIsFresh ==
  Len(streams') > Len(streams) =>
    /\ SubSeq(streams', 1, Len(streams)) = streams
    /\ streams'[Len(streams')].out = <<>>
    /\ streams'[Len(streams')].gen.i = 0

\* Pulling from one stream moves no other stream, and a stream that has
\* ended yields nothing more.
StreamsAreSinglePass ==
  \A k \in 1..Len(streams) :
    /\ streams[k].stops > 0 => streams'[k].out = streams[k].out
    /\ Len(streams'[k].out) >= Len(streams[k].out)
    /\ SubSeq(streams'[k].out, 1, Len(streams[k].out)) = streams[k].out

\* C10: every call of query returns a fresh stream that starts at the first
\* approach however far earlier streams were consumed; a stream only moves
\* forward, and once it has ended it yields nothing when iterated again.
QueryRestartable ==
  /\ []StartsAtFirst
  /\ [][QueryIsFresh /\ StreamsAreSinglePass]_vars

\* An earlier stream was consumed to its end and iterated again, and a later
\* stream has yielded its first approach.
QueryRestartableWitness ==
  \E j, k \in 1..Len(streams) :
    /\ j < k
    /\ streams[j].stops >= 2
    /\ Len(streams[j].out) >= 2
    /\ streams[k].out = <<Ref(1)>>

-----------------------------------------------------------------------------
(* Properties of create_filters *)

\* C14: create_filters builds one filter for every criterion that is
\* supplied, hazardous=False included, and none when nothing is supplied.
FilterPerCriterion ==
  \A k \in 1..Len(streams) :
    Len(streams[k].gen.filters) = Cardinality(streams[k].criteria)

\* Nothing but the hazardous criterion is supplied, if any.
HazardousAlone(criteria) == \A kv \in criteria : kv[1] = "hazardous"

\* C15: a stream of query(create_filters(hazardous=h)) that has ended has
\* yielded exactly the approaches whose NEO has hazardous = h, for h False
\* as for h True; with no criterion it has yielded every approach.
HazardousDistinction ==
  \A k \in 1..Len(streams) :
    (streams[k].gen.done /\ HazardousAlone(streams[k].criteria)) =>
      streams[k].out = Matching(streams[k].criteria)

\* A lower bound above the upper bound of the same quantity.
Contradictory(criteria) ==
  \/ \E q \in {"distance", "velocity", "diameter"} :
       /\ Supplied(criteria, q \o "_min")
       /\ Supplied(criteria, q \o "_max")
       /\ Value(criteria, q \o "_min").v > Value(criteria, q \o "_max").v
  \/ /\ Supplied(criteria, "start_date")
     /\ Supplied(criteria, "end_date")
     /\ Value(criteria, "start_date") > Value(criteria, "end_date")

\* C16: a stream of a query whose bounds contradict each other ends without
\* having yielded anything.
ContradictoryBoundsMatchNothing ==
  \A k \in 1..Len(streams) :
    (streams[k].gen.done /\ Contradictory(streams[k].criteria)) =>
      streams[k].out = <<>>

\* date is supplied together with start_date and end_date.
DateInRange(criteria) ==
  /\ Supplied(criteria, "date")
  /\ Supplied(criteria, "start_date")
  /\ Supplied(criteria, "end_date")

\* The approaches of the database on that calendar date, in storage order.
OnDate(date) ==
  LET Test(ref) == approaches[At(ref)].time.date = date
  IN SelectSeq(_approaches, Test)

\* C17: a stream of a query with date, start_date and end_date that has
\* ended has yielded exactly the approaches on date when date lies in the
\* range, and nothing when it lies outside.
DateWithinRange ==
  \A k \in 1..Len(streams) :
    (streams[k].gen.done /\ DateInRange(streams[k].criteria)) =>
      LET c == streams[k].criteria
      IN streams[k].out =
           IF Value(c, "start_date") <= Value(c, "date") /\ Value(c, "date") <= Value(c, "end_date")
           THEN OnDate(Value(c, "date"))
           ELSE <<>>

-----------------------------------------------------------------------------
(* Properties of limit *)

Min(a, b) == IF a < b THEN a ELSE b

\* The limit is an int above zero.
IsPositive(n) == n # None /\ n[2] > 0

\* C11: the consumed result of limit(x, n) with a positive n is the first
\* min(n, len) items of x, in order, for a collection and for an iterator; a
\* limit above the length gives the whole input.
LimitTruncates ==
  (lim.called /\ lim.ended /\ IsPositive(lim.n)) =>
    lim.out = SubSeq(lim.arg.items, 1, Min(lim.n[2], Len(lim.arg.items)))

\* C12: with n zero, None or omitted the result of limit hands out the items
\* of its input in order, and by its end every one of them.
LimitPassThrough ==
  (lim.called /\ ~IsPositive(lim.n)) =>
    /\ Len(lim.out) <= Len(lim.arg.items)
    /\ lim.out = SubSeq(lim.arg.items, 1, Len(lim.out))
    /\ lim.ended => lim.out = lim.arg.items

\* limit(x, 0) on an input of at least two items was consumed to its end.
LimitPassThroughWitness ==
  /\ lim.called
  /\ lim.supplied
  /\ lim.n = int(0)
  /\ lim.ended
  /\ Len(lim.arg.items) >= 2

\* C13: when the result of limit(stream, n), n positive, was consumed to its
\* end, at most n items were pulled from the single-pass stream, each once.
LimitIsLazy ==
  (lim.called /\ lim.ended /\ IsPositive(lim.n) /\ lim.arg.kind = "iterator") =>
    /\ lim.it.i <= lim.n[2]
    /\ lim.out = SubSeq(lim.arg.items, 1, lim.it.i)

-----------------------------------------------------------------------------
(* Properties of the constructors of models.py *)

\* Python's == on floats: the NaN equals nothing.
eq(a, b) == ~a.nan /\ ~b.nan /\ a.v = b.v

\* The latest call constructed a NearEarthObject.
MadeNeo == call.op = "NearEarthObject" /\ call.raised = Nothing

\* C18: a NearEarthObject built with the empty name or with no name has the
\* name None, and none that is built has the empty string as its name.
EmptyNameIsNone ==
  MadeNeo =>
    /\ call.arg.name \in {<<>>, None} => call.ret.name = None
    /\ call.ret.name # <<>>

\* A NearEarthObject was built from the empty name.
EmptyNameIsNoneWitness ==
  /\ MadeNeo
  /\ call.arg.name = <<>>
  /\ call.ret.name = None

\* C19: a NearEarthObject built from the empty diameter text has the NaN as
\* its diameter, which equals neither zero nor any other number.
EmptyDiameterIsNaN ==
  (call.op = "NearEarthObject" /\ call.arg.diameter = <<>>) =>
    /\ call.raised = Nothing
    /\ call.ret.diameter.nan
    /\ \A n \in 0..2 : ~eq(call.ret.diameter, Float(n))
    /\ ~eq(call.ret.diameter, call.ret.diameter)

\* A NearEarthObject was built from the empty diameter text.
EmptyDiameterIsNaNWitness ==
  /\ MadeNeo
  /\ call.arg.diameter = <<>>
  /\ call.ret.diameter = NaN

\* The text is absent or float does not parse it.
Malformed(text) == FloatError(text) # Nothing

\* The text is there and float does not parse it.
Unparsable(text) == text # None /\ Malformed(text)

\* C20: no malformed numeric field makes a constructor raise: a diameter that
\* does not parse gives the NaN, a distance or velocity that is absent or
\* does not parse gives 0.0.
MalformedFieldsRecovered ==
  /\ (call.op = "NearEarthObject" /\ Unparsable(call.arg.diameter)) =>
       (call.raised = Nothing /\ call.ret.diameter.nan)
  /\ (call.op = "CloseApproach" /\ Malformed(call.arg.distance)) =>
       (call.raised = Nothing /\ call.ret.distance = Float(0))
  /\ (call.op = "CloseApproach" /\ Malformed(call.arg.velocity)) =>
       (call.raised = Nothing /\ call.ret.velocity = Float(0))

\* C21: a CloseApproach built without a NEO has the attribute neo, and its
\* value is None: reading it does not fail.
UnlinkedNeoIsNone ==
  (call.op = "CloseApproach" /\ call.raised = Nothing) =>
    (HasAttr(call.ret, "neo") /\ call.ret.neo = None)

-----------------------------------------------------------------------------
(* Properties of the construction, continued *)

\* Approach j carries a designation key that no NEO has.
Orphan(j) == \A i \in 1..Len(neos) : neos[i].designation # approaches[j]._designation

\* C22: the construction of a database from an approach whose designation
\* key matches no NEO fails with an error that reaches the caller: it never
\* completes with that approach dropped, unlinked or linked to another NEO.
OrphanFailsConstruction ==
  (Constructed /\ \E j \in 1..Len(approaches) : Orphan(j)) =>
    /\ call.raised # Nothing
    /\ pc = "failed"

\* A database was constructed from NEOs and an approach that matches none of them.
OrphanFailsConstructionWitness ==
  /\ Constructed
  /\ Len(neos) >= 1
  /\ \E j \in 1..Len(approaches) : Orphan(j)
  /\ call.raised # Nothing

\* The linking pass was run again over collections that hold something to link.
Rerun ==
  /\ call'.op = "populate_relationships_single_pass"
  /\ ConsistentKeys
  /\ Len(approaches) >= 1

\* C27: the linking pass run again over the collections of a database
\* completes and leaves the graph as it was: every NEO's approaches and
\* every approach's neo are what the first pass made them.
LinkingIdempotent ==
  [][Rerun => (call'.raised = Nothing /\ neos' = neos /\ approaches' = approaches)]_vars

-----------------------------------------------------------------------------
(* filters.py: AttributeFilter *)

\* The comparators of the operator module a filter is built with.
Operators == {"lt", "le", "eq", "ne", "ge", "gt"}

\* op(a, b) on floats: of the comparisons with the NaN only != holds.
Compare(op, a, b) ==
  CASE op = "lt" -> ~a.nan /\ ~b.nan /\ a.v < b.v
    [] op = "le" -> le(a, b)
    [] op = "eq" -> eq(a, b)
    [] op = "ne" -> ~eq(a, b)
    [] op = "ge" -> ge(a, b)
    [] op = "gt" -> ~a.nan /\ ~b.nan /\ a.v > b.v

\* The reference values the filters are built with.
FilterValues == {NaN} \cup {Float(n) : n \in 0..4}

\* AttributeFilter(op, value): lines 51-53.
AttributeFilter(op, value) == [cls |-> "AttributeFilter", op |-> op, value |-> value]

\* A get that falls back on the distance of the approach.
AttributeFilter_get_distance(cls, approach) ==
  [raised |-> Nothing, ret |-> approach.distance]

\* AttributeFilter.get(approach): raises UnsupportedCriterionError (line 69);
\* the module has no subclass that overrides it.
AttributeFilter_get(cls, approach) ==
  [raised |-> "UnsupportedCriterionError", ret |-> None]

\* filter(approach), lines 55-57: self.op(self.get(approach), self.value);
\* what get raises leaves the call.  ret is <<truth value>>, or <<>>.
AttributeFilter_call(self, approach) ==
  LET got == AttributeFilter_get(self.cls, approach)
  IN IF got.raised # Nothing
     THEN [raised |-> got.raised, ret |-> <<>>]
     ELSE [raised |-> Nothing, ret |-> <<Compare(self.op, got.ret, self.value)>>]

\* AttributeFilter(op, value)(approach), on approach j of the database.
CallFilter(op, value, j) ==
  /\ pc = "db"
  /\ LET r == AttributeFilter_call(AttributeFilter(op, value), approaches[j])
     IN call' = [op |-> "AttributeFilter", arg |-> <<op, value, Ref(j)>>,
                 ret |-> r.ret, raised |-> r.raised]
  /\ UNCHANGED <<neos, approaches, _neos, _approaches, pc, streams, lim>>

\* Every plain filter, evaluated on every approach of the linked instance.
NextPredicate ==
  \E op \in Operators, value \in FilterValues, j \in 1..Len(approaches) : CallFilter(op, value, j)

SpecPredicate == InitLinkedInstance /\ [][NextPredicate]_vars

\* C23: a plain AttributeFilter evaluated on an approach raises
\* UnsupportedCriterionError and returns no truth value.
UnsupportedCriterionRaised ==
  call.op = "AttributeFilter" =>
    /\ call.raised = "UnsupportedCriterionError"
    /\ call.ret = <<>>

\* A plain filter was evaluated on an approach and raised.
UnsupportedCriterionRaisedWitness ==
  /\ call.op = "AttributeFilter"
  /\ call.arg[1] = "le"
  /\ call.raised = "UnsupportedCriterionError"

-----------------------------------------------------------------------------
(* helpers.py, write.py *)

\* datetime_to_str(dt): the time to the minute ("%Y-%m-%d %H:%M").
datetime_to_str(dt) == <<"%Y-%m-%d %H:%M", dt.date, dt.minute>>

\* str(dt), as csv writes a datetime: the time with its seconds.
str_datetime(dt) == <<"%Y-%m-%d %H:%M:%S", dt.date, dt.minute, 0>>

\* The header of the CSV output (lines 30-33).
Fieldnames ==
  <<"datetime_utc", "distance_au", "velocity_km_s",
    "designation", "name", "diameter_km", "potentially_hazardous">>

\* What building the output row of a result raises: both writers read
\* result.designation, then result.neo and the attributes of that NEO.
RowError(result) ==
  IF ~HasAttr(result, "designation") THEN "AttributeError"
  ELSE IF ~HasAttr(result, "neo") THEN "AttributeError"
  ELSE IF result.neo = None THEN "AttributeError"
  ELSE Nothing

\* The results at whose row a writer raises.
BadRows(results) ==
  {i \in 1..Len(results) : RowError(approaches[At(results[i])]) # Nothing}

\* The row of lines 39-47; csv writes a datetime as its str and None as the
\* empty text.
csv_row(result) ==
  LET neo == neos[At(result.neo)]
  IN <<str_datetime(result.time), result.distance, result.velocity, result.designation,
       IF neo.name = None THEN <<>> ELSE neo.name, neo.diameter, neo.hazardous>>

\* The object of lines 64-76.
json_object(result) ==
  LET neo == neos[At(result.neo)]
  IN [datetime_utc |-> datetime_to_str(result.time),
      distance_au |-> result.distance,
      velocity_km_s |-> result.velocity,
      neo |-> [designation |-> result.designation, name |-> neo.name,
               diameter_km |-> neo.diameter, potentially_hazardous |-> neo.hazardous]]

\* No file at the output path.
NoFile == [exists |-> FALSE, rows |-> <<>>]

\* write_to_csv(results, filename): the file is opened and the header is
\* written, then one row per result until a row raises; the with statement
\* closes the file with what was written.
write_to_csv(results) ==
  LET bad == BadRows(results)
      n == IF bad = {} THEN Len(results) ELSE (CHOOSE i \in bad : \A j \in bad : i <= j) - 1
  IN [raised |-> IF bad = {} THEN Nothing ELSE "AttributeError",
      file |-> [exists |-> TRUE,
                rows |-> <<Fieldnames>> \o [i \in 1..n |-> csv_row(approaches[At(results[i])])]]]

\* write_to_json(results, filename): the list is built first and the file
\* is opened after it (line 77), so a result that raises leaves no file.
write_to_json(results) ==
  IF BadRows(results) # {}
  THEN [raised |-> "AttributeError", file |-> NoFile]
  ELSE [raised |-> Nothing,
        file |-> [exists |-> TRUE,
                  rows |-> [i \in 1..Len(results) |-> json_object(approaches[At(results[i])])]]]

-----------------------------------------------------------------------------
(* main.py: the query command *)

\* The limit of the printed results when none is given (line 225).
DefaultLimit == 10

\* The message of line 234.
UnsupportedMessage == "Please use an output file that ends with .csv or .json."

\* args.outfile: None, or a path with its suffix.
Path(suffix) == <<"path", suffix>>

Outfiles == {None, Path(".csv"), Path(".json"), Path(".txt"), Path(".CSV")}

\* Everything a generator of query yields until it stops.
RECURSIVE Drain(_)
Drain(gen) ==
  LET r == resume(gen)
  IN IF r.yielded = <<>> THEN <<>> ELSE r.yielded \o Drain(r.gen)

\* What is left to take from an iterator.
Remaining(it) == SubSeq(it.items, it.i + 1, Len(it.items))

\* str(approach), lines 122-128.
str_approach(a) == <<datetime_to_str(a.time), a._designation, a.distance, a.velocity>>

\* A command that writes CSV to every output file that is not a .json one.
main_query_csv(criteria, n, outfile) ==
  LET results == Iterator(Drain(query(create_filters(criteria))))
  IN IF outfile = None
     THEN LET shown == Remaining(iter(limit(results, IF n = None \/ n = int(0)
                                                     THEN int(DefaultLimit) ELSE n)))
          IN [raised |-> Nothing, file |-> NoFile, stderr |-> <<>>,
              stdout |-> [i \in 1..Len(shown) |-> str_approach(approaches[At(shown[i])])]]
     ELSE IF outfile[2] = ".json"
     THEN LET w == write_to_json(Remaining(iter(limit(results, n))))
          IN [raised |-> w.raised, file |-> w.file, stderr |-> <<>>, stdout |-> <<>>]
     ELSE LET w == write_to_csv(Remaining(iter(limit(results, n))))
          IN [raised |-> w.raised, file |-> w.file, stderr |-> <<>>, stdout |-> <<>>]

\* query(database, args), lines 198-234: the filters are created, the
\* database is queried, and the results are printed (limit or 10 of them),
\* written as CSV or JSON by the suffix of the output file, or, with any
\* other suffix, refused with a message on stderr.
main_query(criteria, n, outfile) ==
  LET results == Iterator(Drain(query(create_filters(criteria))))
  IN IF outfile = None
     THEN LET shown == Remaining(iter(limit(results, IF n = None \/ n = int(0)
                                                     THEN int(DefaultLimit) ELSE n)))
          IN [raised |-> Nothing, file |-> NoFile, stderr |-> <<>>,
              stdout |-> [i \in 1..Len(shown) |-> str_approach(approaches[At(shown[i])])]]
     ELSE IF outfile[2] = ".csv"
     THEN LET w == write_to_csv(Remaining(iter(limit(results, n))))
          IN [raised |-> w.raised, file |-> w.file, stderr |-> <<>>, stdout |-> <<>>]
     ELSE IF outfile[2] = ".json"
     THEN LET w == write_to_json(Remaining(iter(limit(results, n))))
          IN [raised |-> w.raised, file |-> w.file, stderr |-> <<>>, stdout |-> <<>>]
     ELSE [raised |-> Nothing, file |-> NoFile, stderr |-> <<UnsupportedMessage>>,
           stdout |-> <<>>]

\* The query command, run on the database.
QueryCommand(criteria, n, outfile) ==
  /\ pc = "db"
  /\ LET r == main_query(criteria, n, outfile)
     IN call' = [op |-> "main.query",
                 arg |-> [criteria |-> criteria, limit |-> n, outfile |-> outfile],
                 ret |-> [stdout |-> r.stdout, stderr |-> r.stderr, file |-> r.file],
                 raised |-> r.raised]
  /\ UNCHANGED <<neos, approaches, _neos, _approaches, pc, streams, lim>>

\* write_to_csv(results, filename) on a sequence of approaches.
WriteToCsv(results) ==
  /\ pc = "db"
  /\ LET w == write_to_csv(results)
     IN call' = [op |-> "write_to_csv", arg |-> results,
                 ret |-> [stdout |-> <<>>, stderr |-> <<>>, file |-> w.file],
                 raised |-> w.raised]
  /\ UNCHANGED <<neos, approaches, _neos, _approaches, pc, streams, lim>>

\* write_to_json(results, filename) on a sequence of approaches.
WriteToJson(results) ==
  /\ pc = "db"
  /\ LET w == write_to_json(results)
     IN call' = [op |-> "write_to_json", arg |-> results,
                 ret |-> [stdout |-> <<>>, stderr |-> <<>>, file |-> w.file],
                 raised |-> w.raised]
  /\ UNCHANGED <<neos, approaches, _neos, _approaches, pc, streams, lim>>

\* The runs of approaches in the database that the writers are given.
ResultArgs ==
  {SubSeq(_approaches, i, j) : i \in 1..(Len(_approaches) + 1), j \in 0..Len(_approaches)}

\* The command and the writers, on the linked instance.
NextCommand ==
  \/ \E criteria \in CriteriaArgs \cup FilterCriteriaArgs, n \in LimitArgs, outfile \in Outfiles :
       QueryCommand(criteria, n, outfile)
  \/ \E results \in ResultArgs : WriteToCsv(results)
  \/ \E results \in ResultArgs : WriteToJson(results)

SpecCommand == InitLinkedInstance /\ [][NextCommand]_vars

-----------------------------------------------------------------------------
(* Properties of the writers and of the query command *)

\* The NEO an approach is linked to.
NeoOf(ref) == neos[At(approaches[At(ref)].neo)]

\* The row the CSV output is to hold for an approach.
ExpectedCsvRow(ref) ==
  LET a == approaches[At(ref)]
  IN <<datetime_to_str(a.time), a.distance, a.velocity, NeoOf(ref).designation,
       IF NeoOf(ref).name = None THEN <<>> ELSE NeoOf(ref).name,
       NeoOf(ref).diameter, NeoOf(ref).hazardous>>

\* C24: write_to_csv on k linked approaches writes the header of the seven
\* columns and then k rows in the order of the input, each with the
\* formatted time, the distance and the velocity of the approach and the
\* designation, name (empty when there is none), diameter and hazard flag
\* of its NEO.
CsvRows ==
  call.op = "write_to_csv" =>
    /\ call.raised = Nothing
    /\ call.ret.file.exists
    /\ Len(call.ret.file.rows) = 1 + Len(call.arg)
    /\ call.ret.file.rows[1] = Fieldnames
    /\ \A i \in 1..Len(call.arg) : call.ret.file.rows[i + 1] = ExpectedCsvRow(call.arg[i])

\* C25: write_to_json on k linked approaches writes k objects in the order
\* of the input, each with the formatted time, the distance, the velocity
\* and a neo object whose designation is that of the approach's NEO and
\* whose name is never the text None.
JsonObjects ==
  call.op = "write_to_json" =>
    /\ call.raised = Nothing
    /\ call.ret.file.exists
    /\ Len(call.ret.file.rows) = Len(call.arg)
    /\ \A i \in 1..Len(call.arg) :
         LET o == call.ret.file.rows[i]
             a == approaches[At(call.arg[i])]
         IN /\ o.datetime_utc = datetime_to_str(a.time)
            /\ o.distance_au = a.distance
            /\ o.velocity_km_s = a.velocity
            /\ o.neo.designation = NeoOf(call.arg[i]).designation
            /\ o.neo.name # <<"N", "o", "n", "e">>
            /\ o.neo.diameter_km = NeoOf(call.arg[i]).diameter
            /\ o.neo.potentially_hazardous = NeoOf(call.arg[i]).hazardous

\* The command was run with an output file that is neither .csv nor .json.
UnsupportedOutfile ==
  /\ call.op = "main.query"
  /\ call.arg.outfile # None
  /\ call.arg.outfile[2] \notin {".csv", ".json"}

\* C26 as stated: with an unsupported extension the command fails, and
\* writes no file.
UnsupportedExtensionFails ==
  UnsupportedOutfile => (call.raised # Nothing /\ ~call.ret.file.exists)

\* C26, amended: with an unsupported extension the command prints its
\* message on stderr and returns; it writes no file and prints no result.
UnsupportedExtensionReported ==
  UnsupportedOutfile =>
    /\ call.raised = Nothing
    /\ call.ret.stderr = <<UnsupportedMessage>>
    /\ call.ret.stdout = <<>>
    /\ ~call.ret.file.exists

\* The command was run with a .txt output file on a query that has results.
UnsupportedExtensionReportedWitness ==
  /\ call.op = "main.query"
  /\ call.arg.outfile = Path(".txt")
  /\ call.arg.criteria = {}
  /\ call.ret.stderr = <<UnsupportedMessage>>

\* C29: the command prints at most limit results, at most DefaultLimit when
\* no limit or the limit 0 is given; to an output file it writes at most
\* limit results.
OutputBounded ==
  call.op = "main.query" =>
    /\ (call.arg.outfile = None /\ IsPositive(call.arg.limit)) =>
         Len(call.ret.stdout) <= call.arg.limit[2]
    /\ (call.arg.outfile = None /\ ~IsPositive(call.arg.limit)) =>
         Len(call.ret.stdout) <= DefaultLimit
    /\ (call.arg.outfile = Path(".csv") /\ IsPositive(call.arg.limit)) =>
         Len(call.ret.file.rows) <= 1 + call.arg.limit[2]
    /\ (call.arg.outfile = Path(".json") /\ IsPositive(call.arg.limit)) =>
         Len(call.ret.file.rows) <= call.arg.limit[2]

-----------------------------------------------------------------------------
(* Properties of the constructed database *)

\* C28: no lookup, no query and no step of a query stream changes a NEO, an
\* approach or the collections the database holds.
NoMutation ==
  [][pc = "db" => /\ neos' = neos
                  /\ approaches' = approaches
                  /\ _neos' = _neos
                  /\ _approaches' = _approaches]_vars

\* A lookup has found a NEO while a stream is consumed in part.
NoMutationWitness ==
  /\ call.op = "get_neo_by_name"
  /\ call.ret # None
  /\ \E k \in 1..Len(streams) :
       /\ Len(streams[k].out) >= 1
       /\ Len(streams[k].out) < Len(_approaches)

\* The query has a bound on the diameter.
DiameterBound(criteria) ==
  Supplied(criteria, "diameter_min") \/ Supplied(criteria, "diameter_max")

\* The approaches whose NEO has the unknown diameter.
UnknownDiameter == {j \in 1..Len(approaches) : NeoOf(Ref(j)).diameter.nan}

\* C30: a query with a diameter bound yields no approach whose NEO has the
\* unknown diameter; a query without one that has ended has yielded every
\* such approach that meets its criteria.
UnknownDiameterExcluded ==
  \A k \in 1..Len(streams) :
    /\ DiameterBound(streams[k].criteria) =>
         \A j \in UnknownDiameter : Ref(j) \notin Range(streams[k].out)
    /\ (~DiameterBound(streams[k].criteria) /\ streams[k].gen.done) =>
         \A j \in UnknownDiameter :
           Satisfies(streams[k].criteria, approaches[j]) => Ref(j) \in Range(streams[k].out)

====
